---- MODULE Spec2Model ----
(***************************************************************************)
(* Selection manipulation helpers of Raptor (src/tools/selection.js).      *)
(*                                                                         *)
(* The document is an ordered tree of element and text nodes.  A boundary  *)
(* is a container (named by its path from the root) and an offset into it; *)
(* a range is a pair of boundaries; the selection is a list of ranges.     *)
(* Every public function of selection.js that the properties below talk    *)
(* about is one action, translated from its code.                          *)
(***************************************************************************)
EXTENDS Integers, Sequences, FiniteSets, TLC

VARIABLES
    doc,            \* the document tree (body at the root)
    ranges,         \* rangy.getSelection().getAllRanges(): the live ranges
    backwards,      \* rangy.getSelection().isBackwards()
    savedSelection, \* var savedSelection (selection.js:9)
    markers,        \* ids of the rangy marker nodes present in the tree
    nextMarker,     \* next id rangy.saveSelection() hands out
    op,             \* the function called last
    args,           \* its arguments
    pre,            \* the state it was called in
    ret,            \* what it returned
    log,            \* what it called (callbacks, rangeReplace)
    errors,         \* what it reported through handleError
    pc,             \* selectionEachRange: position in the while loop
    i,              \* selectionEachRange: var i
    range,          \* selectionEachRange: var range
    passed,         \* selectionEachRange: the number of callback invocations
    returned        \* selectionEachRange: the live ranges on entry and when the
                    \* latest callback returned

vars == <<doc, ranges, backwards, savedSelection, markers, nextMarker,
          op, args, pre, ret, log, errors, pc, i, range, passed, returned>>

docVars == <<doc, ranges, backwards>>
saveVars == <<savedSelection, markers, nextMarker>>
callVars == <<op, args, pre, ret, log, errors>>
loopVars == <<pc, i, range, passed, returned>>

(***************************************************************************)
(* Bounds of the model.                                                    *)
(***************************************************************************)
MaxRanges == 3      \* ranges a selection holds in the iteration model
MaxSaves == 4       \* rangy.saveSelection() calls followed
NumDocs == 3        \* documents of DocList the operations are tried on

(***************************************************************************)
(* Nodes.  An element has a tag, classes and children; a text node has     *)
(* characters.  Nodes of the initial documents have distinct positive ids; *)
(* a node made by cloning or by parsing markup has id 0, and the nodes the *)
(* operations create on purpose have the ids below.                        *)
(***************************************************************************)
Elem(id, tag, cls, kids) ==
    [id |-> id, tag |-> tag, cls |-> cls, kids |-> kids, text |-> <<>>]

TextNode(id, chars) ==
    [id |-> id, tag |-> "#text", cls |-> {}, kids |-> <<>>, text |-> chars]

IsText(n) == n.tag = "#text"

NodeLength(n) == IF IsText(n) THEN Len(n.text) ELSE Len(n.kids)

\* css('display') of the element: the block-level tags of the documents used
BlockTags == {"body", "div", "p", "h1"}
IsInline(n) == n.tag \notin BlockTags

RECURSIVE NodeAt(_, _)
NodeAt(n, p) == IF p = <<>> THEN n ELSE NodeAt(n.kids[Head(p)], Tail(p))

RECURSIVE Paths(_)
Paths(n) ==
    {<<>>} \cup UNION {{<<k>> \o q : q \in Paths(n.kids[k])} : k \in 1..Len(n.kids)}

RECURSIVE SetAt(_, _, _)
SetAt(n, p, m) ==
    IF p = <<>> THEN m
    ELSE [n EXCEPT !.kids[Head(p)] = SetAt(n.kids[Head(p)], Tail(p), m)]

\* the node at p (not the root) replaced by the nodes ms, in its parent
RECURSIVE SpliceAt(_, _, _)
SpliceAt(n, p, ms) ==
    IF Len(p) = 1
    THEN [n EXCEPT !.kids = SubSeq(n.kids, 1, p[1] - 1) \o ms
                             \o SubSeq(n.kids, p[1] + 1, Len(n.kids))]
    ELSE [n EXCEPT !.kids[Head(p)] = SpliceAt(n.kids[Head(p)], Tail(p), ms)]

Front(p) == SubSeq(p, 1, Len(p) - 1)
Last(p) == p[Len(p)]

IsPrefix(p, q) == Len(p) <= Len(q) /\ SubSeq(q, 1, Len(p)) = p

Ids(n) == {NodeAt(n, p).id : p \in Paths(n)}
HasId(n, id) == \E p \in Paths(n) : NodeAt(n, p).id = id
PathOf(n, id) == CHOOSE p \in Paths(n) : NodeAt(n, p).id = id

RECURSIVE ZeroIds(_)
ZeroIds(n) ==
    [n EXCEPT !.id = 0, !.kids = [k \in 1..Len(n.kids) |-> ZeroIds(n.kids[k])]]

\* the character data of a subtree in document order ($.text())
RECURSIVE Flatten(_)
RECURSIVE FlattenSeq(_)
Flatten(n) == IF IsText(n) THEN n.text ELSE FlattenSeq(n.kids)
FlattenSeq(ns) == IF ns = <<>> THEN <<>> ELSE Flatten(Head(ns)) \o FlattenSeq(Tail(ns))

(***************************************************************************)
(* Boundaries and ranges (DOM Range, as rangy implements it).              *)
(***************************************************************************)
Bnd(path, off) == [path |-> path, off |-> off]
Rng(s, e) == [s |-> s, e |-> e]

Boundaries(n) ==
    UNION {{Bnd(p, k) : k \in 0..NodeLength(NodeAt(n, p))} : p \in Paths(n)}

Sign(x) == IF x < 0 THEN -1 ELSE IF x > 0 THEN 1 ELSE 0

\* document order of two boundaries, given as path \o <<offset>>:
\* -1 before, 0 same, 1 after
RECURSIVE CmpKey(_, _)
CmpKey(x, y) ==
    IF Len(x) = 1 /\ Len(y) = 1 THEN Sign(x[1] - y[1])
    ELSE IF Len(x) = 1 THEN (IF y[1] <= x[1] THEN 1 ELSE -1)
    ELSE IF Len(y) = 1 THEN (IF x[1] <= y[1] THEN -1 ELSE 1)
    ELSE IF x[1] = y[1] THEN CmpKey(Tail(x), Tail(y))
    ELSE Sign(x[1] - y[1])

ComparePoints(a, b) == CmpKey(a.path \o <<a.off>>, b.path \o <<b.off>>)

RECURSIVE CommonPrefix(_, _)
CommonPrefix(p, q) ==
    IF p = <<>> \/ q = <<>> \/ Head(p) # Head(q) THEN <<>>
    ELSE <<Head(p)>> \o CommonPrefix(Tail(p), Tail(q))

\* range.commonAncestorContainer, as a path
CommonAncestor(r) == CommonPrefix(r.s.path, r.e.path)

Collapsed(r) == r.s = r.e

\* every range of the tree n: start not after end
RangesOf(n) ==
    {r \in [s : Boundaries(n), e : Boundaries(n)] : ComparePoints(r.s, r.e) <= 0}

(***************************************************************************)
(* The documents.  body holds the editable div (id 2) and a paragraph      *)
(* outside it; every character occurs once, so the order of the character  *)
(* data can be read off Flatten.                                           *)
(***************************************************************************)
Outside == Elem(20, "p", {}, <<TextNode(21, <<"z">>)>>)

\* <div><p>ab<b>cd</b>e</p><p>fg</p></div>
Doc1 ==
    Elem(1, "body", {}, <<
        Elem(2, "div", {}, <<
            Elem(3, "p", {}, <<TextNode(4, <<"a", "b">>),
                               Elem(5, "b", {}, <<TextNode(6, <<"c", "d">>)>>),
                               TextNode(7, <<"e">>)>>),
            Elem(8, "p", {}, <<TextNode(9, <<"f", "g">>)>>)>>),
        Outside>>)

\* <div><p>ab</p>cd<h1><i>e</i></h1></div>: bare text beside the blocks
Doc2 ==
    Elem(1, "body", {}, <<
        Elem(2, "div", {}, <<
            Elem(3, "p", {}, <<TextNode(4, <<"a", "b">>)>>),
            TextNode(5, <<"c", "d">>),
            Elem(6, "h1", {}, <<Elem(7, "i", {}, <<TextNode(8, <<"e">>)>>)>>)>>),
        Outside>>)

\* <div><p>a</p><div><p>b</p><p>c</p></div><p>d</p></div>: nested blocks
Doc3 ==
    Elem(1, "body", {}, <<
        Elem(2, "div", {}, <<
            Elem(3, "p", {}, <<TextNode(4, <<"a">>)>>),
            Elem(5, "div", {}, <<Elem(6, "p", {}, <<TextNode(7, <<"b">>)>>),
                                 Elem(8, "p", {}, <<TextNode(9, <<"c">>)>>)>>),
            Elem(10, "p", {}, <<TextNode(11, <<"d">>)>>)>>),
        Outside>>)

\* <div>ab<b>c<i>d</i></b></div>: inline content only
Doc4 ==
    Elem(1, "body", {}, <<
        Elem(2, "div", {}, <<
            TextNode(3, <<"a", "b">>),
            Elem(4, "b", {}, <<TextNode(5, <<"c">>),
                               Elem(6, "i", {}, <<TextNode(7, <<"d">>)>>)>>)>>),
        Outside>>)

DocList == <<Doc1, Doc2, Doc3, Doc4>>
Docs == {DocList[k] : k \in 1..NumDocs}

EditablePath == <<1>>

(***************************************************************************)
(* The saved selection (selection.js:9-41).  rangy.saveSelection() puts a  *)
(* marker node at the boundaries of every range and returns an object that *)
(* names them; False stands for the value false.                           *)
(***************************************************************************)
False == [id |-> 0, markerIds |-> {}]

SaveState == [savedSelection |-> savedSelection, markers |-> markers,
              nextMarker |-> nextMarker]

\* rangy.saveSelection(): a new object, its markers inserted into the tree
RangySaveSelection(s, rs) ==
    LET made == {<<s.nextMarker, k>> : k \in 1..Len(rs)}
    IN  [savedSelection |-> [id |-> s.nextMarker, markerIds |-> made],
         markers |-> s.markers \cup made,
         nextMarker |-> s.nextMarker + 1]

\* rangy.restoreSelection(saved) and rangy.removeMarkers(saved) take the
\* markers of that saved selection out of the tree
RangyRemoveMarkers(s, saved) == [s EXCEPT !.markers = @ \ saved.markerIds]

selectionSaveAlways(s, rs, overwrite) == RangySaveSelection(s, rs)

selectionSave(s, rs, overwrite) ==
    IF s.savedSelection # False /\ ~overwrite THEN s
    ELSE RangySaveSelection(s, rs)

selectionRestore(s) ==
    IF s.savedSelection # False
    THEN [RangyRemoveMarkers(s, s.savedSelection) EXCEPT !.savedSelection = False]
    ELSE s

selectionDestroy(s) ==
    [(IF s.savedSelection # False THEN RangyRemoveMarkers(s, s.savedSelection) ELSE s)
        EXCEPT !.savedSelection = False]

selectionSaved == savedSelection # False

SetSaveState(s) ==
    /\ savedSelection' = s.savedSelection
    /\ markers' = s.markers
    /\ nextMarker' = s.nextMarker

DoSelectionSave(overwrite) ==
    /\ nextMarker <= MaxSaves
    /\ SetSaveState(selectionSave(SaveState, ranges, overwrite))
    /\ op' = "selectionSave"
    /\ args' = [overwrite |-> overwrite]
    /\ pre' = SaveState
    /\ UNCHANGED <<docVars, ret, log, errors, loopVars>>

DoSelectionRestore ==
    /\ SetSaveState(selectionRestore(SaveState))
    /\ op' = "selectionRestore"
    /\ args' = [overwrite |-> FALSE]
    /\ pre' = SaveState
    /\ UNCHANGED <<docVars, ret, log, errors, loopVars>>

DoSelectionDestroy ==
    /\ SetSaveState(selectionDestroy(SaveState))
    /\ op' = "selectionDestroy"
    /\ args' = [overwrite |-> FALSE]
    /\ pre' = SaveState
    /\ UNCHANGED <<docVars, ret, log, errors, loopVars>>

\* a caret in the first paragraph, a range in it, and both together
SavedSelections ==
    {<<>>,
     <<Rng(Bnd(<<1, 1, 1>>, 1), Bnd(<<1, 1, 1>>, 1))>>,
     <<Rng(Bnd(<<1, 1, 1>>, 0), Bnd(<<1, 1, 1>>, 1)),
       Rng(Bnd(<<1, 2, 1>>, 0), Bnd(<<1, 2, 1>>, 1))>>}

LoopIdle ==
    /\ pc = "idle" /\ i = 0 /\ range = Rng(Bnd(<<>>, 0), Bnd(<<>>, 0))
    /\ passed = 0 /\ returned = <<>>

CallIdle ==
    /\ op = "none" /\ args = [overwrite |-> FALSE] /\ ret = <<>> /\ log = <<>>
    /\ errors = <<>>

InitSave ==
    /\ doc = Doc1
    /\ ranges \in SavedSelections
    /\ backwards = FALSE
    /\ savedSelection = False /\ markers = {} /\ nextMarker = 1
    /\ CallIdle
    /\ pre = SaveState
    /\ LoopIdle

NextSave ==
    \/ \E overwrite \in BOOLEAN : DoSelectionSave(overwrite)
    \/ DoSelectionRestore
    \/ DoSelectionDestroy

SpecSave == InitSave /\ [][NextSave]_vars

\* C2: selectionSave() without overwrite leaves an already saved selection (and
\* the tree) as it is and selectionSave replaces a saved selection only when
\* called with overwrite; selectionRestore() with nothing saved changes neither
\* the saved selection nor the tree, and after any selectionRestore() nothing is
\* saved, so a second selectionRestore() in a row changes nothing.
SaveKeepsUnlessOverwrite ==
    /\ op = "selectionSave" /\ pre.savedSelection # False /\ ~args.overwrite
           => savedSelection = pre.savedSelection /\ markers = pre.markers
    /\ op = "selectionSave" /\ pre.savedSelection # False
           /\ savedSelection # pre.savedSelection
           => args.overwrite
    /\ op = "selectionRestore" => savedSelection = False
    /\ op = "selectionRestore" /\ pre.savedSelection = False
           => markers = pre.markers /\ nextMarker = pre.nextMarker

\* a save without overwrite was called with a selection saved, and a save with
\* overwrite has replaced a saved selection
SaveKeepsWitness ==
    /\ op = "selectionSave" /\ ~args.overwrite
    /\ pre.savedSelection # False
    /\ pre.savedSelection.markerIds # {}

\* C12: the marker nodes in the tree are exactly those of the saved
\* selection, and there is none when selectionSaved() is false, whatever
\* calls of selectionSave(overwrite), selectionRestore and selectionDestroy
\* were made.
MarkersAreThoseSaved ==
    /\ markers = savedSelection.markerIds
    /\ ~selectionSaved => markers = {}

(***************************************************************************)
(* selectionEachRange (selection.js:53-60).  The callback is the caller's: *)
(* between its invocation and its return it may remove ranges from the     *)
(* selection, add ranges to it or replace them all.                        *)
(***************************************************************************)
Caret(k) == Rng(Bnd(<<1, 1, 1>>, k), Bnd(<<1, 1, 1>>, k))

Carets == {Caret(k) : k \in 1..MaxRanges}

RECURSIVE SeqsOver(_, _)
SeqsOver(S, n) ==
    IF n = 0 THEN {<<>>}
    ELSE LET shorter == SeqsOver(S, n - 1)
         IN  shorter \cup {Append(q, x) : q \in {t \in shorter : Len(t) = n - 1}, x \in S}

Distinct(q) == \A a, b \in 1..Len(q) : a # b => q[a] # q[b]

RangeLists == {q \in SeqsOver(Carets, MaxRanges) : Distinct(q)}

RemoveIndex(q, k) == SubSeq(q, 1, k - 1) \o SubSeq(q, k + 1, Len(q))

\* the list the loop was entered with: what a loop that fetched once would use
GetAllRangesCached == returned[1]

\* selection.getAllRanges(): a new array of the ranges the selection holds now
GetAllRanges == ranges

\* while (range = selection.getAllRanges()[i++]): the test and the call
EachRangeTest ==
    /\ pc = "test"
    /\ LET all == GetAllRanges
       IN  IF i + 1 <= Len(all)
           THEN /\ range' = all[i + 1]
                /\ passed' = passed + 1
                /\ pc' = "callback"
           ELSE /\ pc' = "done"
                /\ UNCHANGED <<range, passed>>
    /\ i' = i + 1
    /\ UNCHANGED <<docVars, saveVars, callVars, returned>>

\* the callback calls selection.removeRange(range)
CallbackRemoveRange ==
    /\ pc = "callback"
    /\ \E k \in 1..Len(ranges) : ranges' = RemoveIndex(ranges, k)
    /\ UNCHANGED <<doc, backwards, saveVars, callVars, loopVars>>

\* the callback calls selection.addRange(range)
CallbackAddRange ==
    /\ pc = "callback"
    /\ Len(ranges) < MaxRanges
    /\ \E r \in Carets :
          /\ \A k \in 1..Len(ranges) : ranges[k] # r
          /\ \E k \in 0..Len(ranges) :
                ranges' = SubSeq(ranges, 1, k) \o <<r>> \o SubSeq(ranges, k + 1, Len(ranges))
    /\ UNCHANGED <<doc, backwards, saveVars, callVars, loopVars>>

\* the callback calls selection.setSingleRange(range)
CallbackSetSingleRange ==
    /\ pc = "callback"
    /\ \E r \in Carets : ranges' = <<r>>
    /\ UNCHANGED <<doc, backwards, saveVars, callVars, loopVars>>

CallbackReturn ==
    /\ pc = "callback"
    /\ pc' = "test"
    /\ returned' = [returned EXCEPT ![2] = ranges]
    /\ UNCHANGED <<docVars, saveVars, callVars, i, range, passed>>

InitEachRange ==
    /\ doc = Doc1
    /\ ranges \in RangeLists
    /\ backwards = FALSE
    /\ savedSelection = False /\ markers = {} /\ nextMarker = 1
    /\ CallIdle
    /\ pre = SaveState
    /\ pc = "test" /\ i = 0 /\ range = Caret(0)
    /\ passed = 0 /\ returned = <<ranges, ranges>>

NextEachRange ==
    \/ EachRangeTest
    \/ CallbackRemoveRange
    \/ CallbackAddRange
    \/ CallbackSetSingleRange
    \/ CallbackReturn

SpecEachRange == InitEachRange /\ [][NextEachRange]_vars

\* C1: the range handed to the k-th callback invocation is element k-1 (counted
\* from 0) of the ranges the selection held when the (k-1)-th callback returned
\* (on entry, for the first), and the loop ends exactly when the selection holds
\* no such element: it never hands out a range of an older list.
EachRangeRefetches ==
    /\ pc = "callback" =>
          /\ passed = i
          /\ i <= Len(returned[2])
          /\ range = returned[2][i]
    /\ pc = "done" =>
          /\ passed = i - 1
          /\ Len(returned[2]) < i

\* a second callback is handed a range that was not the second one when the
\* loop began, the first callback having changed the selection
EachRangeWitness ==
    /\ pc = "callback"
    /\ passed = 2
    /\ Len(returned[1]) >= 2
    /\ range # returned[1][2]

(***************************************************************************)
(* Range operations of the DOM, as rangy implements them.                  *)
(***************************************************************************)
\* the part of n before, or after, the boundary (p, off) inside it; with
\* cloned, the partially kept nodes are clones (id 0)
RECURSIVE KeepBefore(_, _, _, _)
KeepBefore(n, p, off, cloned) ==
    LET m == IF cloned THEN [n EXCEPT !.id = 0] ELSE n
    IN  IF p = <<>>
        THEN IF IsText(n) THEN [m EXCEPT !.text = SubSeq(n.text, 1, off)]
             ELSE [m EXCEPT !.kids = SubSeq(n.kids, 1, off)]
        ELSE [m EXCEPT !.kids = SubSeq(n.kids, 1, Head(p) - 1)
                         \o <<KeepBefore(n.kids[Head(p)], Tail(p), off, cloned)>>]

RECURSIVE KeepAfter(_, _, _, _)
KeepAfter(n, p, off, cloned) ==
    LET m == IF cloned THEN [n EXCEPT !.id = 0] ELSE n
    IN  IF p = <<>>
        THEN IF IsText(n) THEN [m EXCEPT !.text = SubSeq(n.text, off + 1, Len(n.text))]
             ELSE [m EXCEPT !.kids = SubSeq(n.kids, off + 1, Len(n.kids))]
        ELSE [m EXCEPT !.kids = <<KeepAfter(n.kids[Head(p)], Tail(p), off, cloned)>>
                         \o SubSeq(n.kids, Head(p) + 1, Len(n.kids))]

\* range.extractContents(): the tree without the contents of r, the fragment
\* that holds them, and the boundary the range collapses to
ExtractContents(d, r) ==
    LET cp == CommonAncestor(r)
        c == NodeAt(d, cp)
        sp == SubSeq(r.s.path, Len(cp) + 1, Len(r.s.path))
        ep == SubSeq(r.e.path, Len(cp) + 1, Len(r.e.path))
    IN  IF Collapsed(r) THEN [doc |-> d, frag |-> <<>>, at |-> r.s]
        ELSE IF IsText(c)
        THEN [doc |-> SetAt(d, cp, [c EXCEPT !.text =
                         SubSeq(c.text, 1, r.s.off) \o SubSeq(c.text, r.e.off + 1, Len(c.text))]),
              frag |-> <<TextNode(0, SubSeq(c.text, r.s.off + 1, r.e.off))>>,
              at |-> r.s]
        ELSE LET from == IF sp = <<>> THEN r.s.off ELSE Head(sp)
                 to == IF ep = <<>> THEN r.e.off ELSE Head(ep) - 1
                 left == IF sp = <<>> THEN SubSeq(c.kids, 1, r.s.off)
                         ELSE SubSeq(c.kids, 1, Head(sp) - 1)
                              \o <<KeepBefore(c.kids[Head(sp)], Tail(sp), r.s.off, FALSE)>>
                 right == IF ep = <<>> THEN SubSeq(c.kids, r.e.off + 1, Len(c.kids))
                          ELSE <<KeepAfter(c.kids[Head(ep)], Tail(ep), r.e.off, FALSE)>>
                               \o SubSeq(c.kids, Head(ep) + 1, Len(c.kids))
                 first == IF sp = <<>> THEN <<>>
                          ELSE <<KeepAfter(c.kids[Head(sp)], Tail(sp), r.s.off, TRUE)>>
                 last == IF ep = <<>> THEN <<>>
                         ELSE <<KeepBefore(c.kids[Head(ep)], Tail(ep), r.e.off, TRUE)>>
             IN  [doc |-> SetAt(d, cp, [c EXCEPT !.kids = left \o right]),
                  frag |-> first \o SubSeq(c.kids, from + 1, to) \o last,
                  at |-> Bnd(cp, from)]

\* range.cloneContents(): a copy of the contents, the tree left alone
CloneContents(d, r) ==
    LET f == ExtractContents(d, r).frag
    IN  [k \in 1..Len(f) |-> ZeroIds(f[k])]

\* range.insertNode(node) for a collapsed range at b (a fragment inserts its
\* children): the new tree and the boundary just before the inserted nodes
InsertNodes(d, b, ms) ==
    LET c == NodeAt(d, b.path)
    IN  IF ~IsText(c)
        THEN [doc |-> SetAt(d, b.path, [c EXCEPT !.kids =
                         SubSeq(c.kids, 1, b.off) \o ms \o SubSeq(c.kids, b.off + 1, Len(c.kids))]),
              at |-> b]
        ELSE LET pp == Front(b.path)
                 k == Last(b.path)
                 par == NodeAt(d, pp)
                 into(kids, off) == [doc |-> SetAt(d, pp, [par EXCEPT !.kids = kids]),
                                     at |-> Bnd(pp, off)]
             IN  IF b.off = Len(c.text)
                 THEN into(SubSeq(par.kids, 1, k) \o ms \o SubSeq(par.kids, k + 1, Len(par.kids)), k)
                 ELSE IF b.off = 0
                 THEN into(SubSeq(par.kids, 1, k - 1) \o ms \o SubSeq(par.kids, k, Len(par.kids)), k - 1)
                 ELSE into(SubSeq(par.kids, 1, k - 1)
                           \o <<[c EXCEPT !.text = SubSeq(c.text, 1, b.off)]>>
                           \o ms
                           \o <<TextNode(0, SubSeq(c.text, b.off + 1, Len(c.text)))>>
                           \o SubSeq(par.kids, k + 1, Len(par.kids)), k)

\* fragmentToHtml(fragment) === '': the fragment serialises to no markup
EmptyHtml(f) == \A k \in 1..Len(f) : IsText(f[k]) /\ f[k].text = <<>>

(***************************************************************************)
(* The selections the document operations are tried on: none, one range    *)
(* anywhere inside the editable div, or two ranges with text boundaries in *)
(* two different child blocks of it.  A selection made backwards has its   *)
(* anchor after its focus.                                                 *)
(***************************************************************************)
EditableRanges(d) == {r \in RangesOf(d) : IsPrefix(EditablePath, CommonAncestor(r))}

TextRangesIn(d, k) ==
    {r \in RangesOf(d) :
        /\ ~IsText(NodeAt(d, EditablePath \o <<k>>))
        /\ IsPrefix(EditablePath \o <<k>>, CommonAncestor(r))
        /\ IsText(NodeAt(d, r.s.path)) /\ IsText(NodeAt(d, r.e.path))}

TwoRangeSelections(d) ==
    LET n == Len(NodeAt(d, EditablePath).kids)
    IN  UNION {{<<r1, r2>> : r1 \in TextRangesIn(d, k[1]), r2 \in TextRangesIn(d, k[2])} :
                  k \in {k \in (1..n) \X (1..n) : k[1] < k[2]}}

Selections(d) ==
    {<<>>} \cup {<<r>> : r \in EditableRanges(d)} \cup TwoRangeSelections(d)

InitDocument ==
    /\ doc \in Docs
    /\ ranges \in Selections(doc)
    /\ backwards \in {b \in BOOLEAN : b => Len(ranges) = 1 /\ ~Collapsed(ranges[1])}
    /\ savedSelection = False /\ markers = {} /\ nextMarker = 1
    /\ CallIdle
    /\ pre = [doc |-> doc, ranges |-> ranges]
    /\ LoopIdle

\* selection.anchorNode/anchorOffset and focusNode/focusOffset
Anchor(rs, bw) == IF bw THEN rs[Len(rs)].e ELSE rs[Len(rs)].s
Focus(rs, bw) == IF bw THEN rs[Len(rs)].s ELSE rs[Len(rs)].e

\* the element itself, or the parent of a text node
ElementOf(d, p) == IF IsText(NodeAt(d, p)) THEN Front(p) ELSE p

selectionGetElement(d, r) == ElementOf(d, CommonAncestor(r))

selectionGetElements(d, rs) == [k \in 1..Len(rs) |-> selectionGetElement(d, rs[k])]

selectionGetStartElement(d, rs, bw) ==
    IF bw THEN ElementOf(d, Focus(rs, bw).path) ELSE ElementOf(d, Anchor(rs, bw).path)

selectionGetEndElement(d, rs, bw) ==
    IF bw THEN ElementOf(d, Anchor(rs, bw).path) ELSE ElementOf(d, Focus(rs, bw).path)

(***************************************************************************)
(* selectionReplace (selection.js:74-80)                                   *)
(***************************************************************************)
HtmlId == 90
Html == Elem(HtmlId, "ul", {}, <<>>)

\* rangeReplace(html, range): the contents of the range are taken out, html is
\* inserted where they began, the range collapses after it; returns what it
\* inserted
rangeReplace(d, html, r) ==
    LET x == ExtractContents(d, r)
        ins == InsertNodes(x.doc, x.at, <<html>>)
        after == Bnd(ins.at.path, ins.at.off + 1)
    IN  [doc |-> ins.doc, range |-> Rng(after, after), result |-> <<html>>]

\* Array.prototype.concat: a new array, the receiver unchanged
ArrayConcat(a, b) == a \o b

\* result.concat(rangeReplace(html, range)) as a statement: the value of the
\* expression is dropped, result is what it was
ReplaceCallback(result, replaced) == result

RECURSIVE ReplaceEachRange(_, _, _)
ReplaceEachRange(st, html, k) ==
    IF k + 1 > Len(st.ranges) THEN st
    ELSE LET rr == rangeReplace(st.doc, html, st.ranges[k + 1])
         IN  ReplaceEachRange([doc |-> rr.doc,
                               ranges |-> [st.ranges EXCEPT ![k + 1] = rr.range],
                               result |-> ReplaceCallback(st.result, rr.result),
                               calls |-> Append(st.calls, rr.result)],
                              html, k + 1)

selectionReplace(d, rs, html) ==
    ReplaceEachRange([doc |-> d, ranges |-> rs, result |-> <<>>, calls |-> <<>>], html, 0)

DoSelectionReplace(html) ==
    /\ op = "none"
    /\ LET st == selectionReplace(doc, ranges, html)
       IN  /\ doc' = st.doc
           /\ ranges' = st.ranges
           /\ ret' = st.result
           /\ log' = st.calls
    /\ op' = "selectionReplace"
    /\ args' = [html |-> html]
    /\ pre' = [doc |-> doc, ranges |-> ranges]
    /\ UNCHANGED <<backwards, saveVars, errors, loopVars>>

RECURSIVE Flat(_)
Flat(qs) == IF qs = <<>> THEN <<>> ELSE Head(qs) \o Flat(Tail(qs))

\* C5: selectionReplace calls rangeReplace once per range and returns a list
\* that holds the result of every one of these calls.
ReplaceReturnsEveryResult ==
    op = "selectionReplace" /\ Len(pre.ranges) >= 1
        => /\ Len(log) = Len(pre.ranges)
           /\ ret = Flat(log)

(***************************************************************************)
(* selectionReplaceSplittingSelectedElement (selection.js:314-341) and     *)
(* selectionReplaceWithinValidTags (selection.js:350-371)                  *)
(***************************************************************************)
\* adjacent text nodes become one and empty ones vanish when nodes are
\* written as markup
RECURSIVE MergeText(_)
MergeText(ns) ==
    IF ns = <<>> THEN <<>>
    ELSE IF IsText(Head(ns)) /\ Head(ns).text = <<>> THEN MergeText(Tail(ns))
    ELSE IF Len(ns) >= 2 /\ IsText(ns[1]) /\ IsText(ns[2])
    THEN MergeText(<<[ns[1] EXCEPT !.text = @ \o ns[2].text]>> \o SubSeq(ns, 3, Len(ns)))
    ELSE <<Head(ns)>> \o MergeText(Tail(ns))

RECURSIVE Reparse(_)
Reparse(n) ==
    IF IsText(n) THEN n
    ELSE LET merged == MergeText(n.kids)
         IN  [n EXCEPT !.kids = [k \in 1..Len(merged) |-> Reparse(merged[k])]]

\* $(fragmentToHtml(fragment)) and $(markup): the nodes are written as markup
\* and parsed again, which makes new nodes
ParseHtml(ns) ==
    LET merged == MergeText(ns)
    IN  [k \in 1..Len(merged) |-> ZeroIds(Reparse(merged[k]))]

\* where a boundary of a live range is once the element at selPath has been
\* removed and three nodes put in its place ($.fn.replaceWith)
AfterReplaceWith(b, selPath) ==
    LET pp == Front(selPath)
        k == Last(selPath)
    IN  IF IsPrefix(selPath, b.path) THEN Bnd(pp, k - 1)
        ELSE IF b.path = pp THEN (IF b.off > k THEN Bnd(pp, b.off + 2)
                                  ELSE IF b.off = k THEN Bnd(pp, k - 1) ELSE b)
        ELSE IF IsPrefix(pp, b.path) /\ b.path[Len(pp) + 1] > k
        THEN Bnd([b.path EXCEPT ![Len(pp) + 1] = @ + 2], b.off)
        ELSE b

selectionReplaceSplittingSelectedElement(d, rs, html) ==
    LET selectionRange == rs[1]
        selectedElement == selectionGetElements(d, rs)[1]
        pp == Front(selectedElement)
        k == Last(selectedElement)
        startRange == Rng(Bnd(pp, k - 1), selectionRange.s)
        startFragment == CloneContents(d, startRange)
        endRange == Rng(selectionRange.e, Bnd(pp, k))
        endFragment == CloneContents(d, endRange)
        replacement == ParseHtml(startFragment) \o <<html>> \o ParseHtml(endFragment)
    IN  [doc |-> SpliceAt(d, selectedElement, replacement),
         ranges |-> [j \in 1..Len(rs) |->
                        Rng(AfterReplaceWith(rs[j].s, selectedElement),
                            AfterReplaceWith(rs[j].e, selectedElement))],
         result |-> <<html>>,
         calls |-> <<>>]

\* elementIsValid(element, validTagNames)
elementIsValid(d, p, validTagNames) == NodeAt(d, p).tag \in validTagNames

InsertableIfAnyValid(d, rs, bw, validTagNames) ==
    \/ elementIsValid(d, selectionGetElements(d, rs)[1], validTagNames)
    \/ elementIsValid(d, selectionGetStartElement(d, rs, bw), validTagNames)
    \/ elementIsValid(d, selectionGetEndElement(d, rs, bw), validTagNames)

\* selectedElementValid && startElementValid && endElementValid
InsertableInPlace(d, rs, bw, validTagNames) ==
    /\ elementIsValid(d, selectionGetElements(d, rs)[1], validTagNames)
    /\ elementIsValid(d, selectionGetStartElement(d, rs, bw), validTagNames)
    /\ elementIsValid(d, selectionGetEndElement(d, rs, bw), validTagNames)

selectionReplaceWithinValidTags(d, rs, bw, html, validTagNames) ==
    IF Len(rs) = 0
    THEN [doc |-> d, ranges |-> rs, result |-> <<>>, calls |-> <<>>]
    ELSE IF InsertableInPlace(d, rs, bw, validTagNames)
    THEN selectionReplace(d, rs, html)
    ELSE selectionReplaceSplittingSelectedElement(d, rs, html)

ValidTagSets == SUBSET {"div", "p", "b"}

DoSelectionReplaceWithinValidTags(html, validTagNames) ==
    /\ op = "none"
    /\ LET st == selectionReplaceWithinValidTags(doc, ranges, backwards, html, validTagNames)
       IN  /\ doc' = st.doc
           /\ ranges' = st.ranges
           /\ ret' = st.result
           /\ log' = st.calls
    /\ op' = "selectionReplaceWithinValidTags"
    /\ args' = [html |-> html, validTagNames |-> validTagNames]
    /\ pre' = [doc |-> doc, ranges |-> ranges]
    /\ UNCHANGED <<backwards, saveVars, errors, loopVars>>

NextReplace ==
    \/ DoSelectionReplace(Html)
    \/ \E validTagNames \in ValidTagSets :
          DoSelectionReplaceWithinValidTags(Html, validTagNames)

SpecReplace == InitDocument /\ [][NextReplace]_vars

\* the paths of the nodes with this id, and whether one node directly holds another
PathsOfId(n, id) == {p \in Paths(n) : NodeAt(n, p).id = id}
DirectlyContains(n, outer, inner) ==
    \E p \in PathsOfId(n, outer) : \E k \in 1..Len(NodeAt(n, p).kids) :
        NodeAt(n, p).kids[k].id = inner
Contains(n, outer, inner) ==
    \E p \in PathsOfId(n, outer) : \E q \in PathsOfId(n, inner) :
        IsPrefix(p, q) /\ p # q

\* what the call was made on: the selected element (common ancestor of the
\* first range), and the tags of the three elements the validity test reads
SelectedBefore == NodeAt(pre.doc, ElementOf(pre.doc, CommonAncestor(pre.ranges[1])))
DocumentOrderStart == pre.ranges[Len(pre.ranges)].s
DocumentOrderEnd == pre.ranges[Len(pre.ranges)].e
ThreeTagsBefore ==
    {SelectedBefore.tag,
     NodeAt(pre.doc, ElementOf(pre.doc, DocumentOrderStart.path)).tag,
     NodeAt(pre.doc, ElementOf(pre.doc, DocumentOrderEnd.path)).tag}

\* the selected element has been replaced wholesale by a copy of what it held
\* before the selection, html, and a copy of what it held after the selection
SplitAround(selPath) ==
    LET pp == Front(selPath)
        k == Last(selPath)
        kidsBefore == NodeAt(pre.doc, pp).kids
        kidsAfter == NodeAt(doc, pp).kids
        old == NodeAt(pre.doc, selPath)
        all == Flatten(old)
        head == Flatten(kidsAfter[k])
        tail == Flatten(kidsAfter[k + 2])
    IN  /\ ~HasId(doc, old.id)
        /\ Len(kidsAfter) = Len(kidsBefore) + 2
        /\ kidsAfter[k].id = 0 /\ kidsAfter[k].tag = old.tag
        /\ kidsAfter[k + 1].id = HtmlId
        /\ kidsAfter[k + 2].id = 0 /\ kidsAfter[k + 2].tag = old.tag
        /\ Len(head) + Len(tail) <= Len(all)
        /\ head = SubSeq(all, 1, Len(head))
        /\ tail = SubSeq(all, Len(all) - Len(tail) + 1, Len(all))

\* C4: with at least one range, html is inserted in place, inside the selected
\* element, only when the common-ancestor element, the start element and the
\* end element all have a tag of validTagNames, and then it is; otherwise the
\* selected element is split (replaced by before + html + after), so that the
\* original selected element never directly contains the inserted html.
ReplaceSplitsUnlessAllValid ==
    op = "selectionReplaceWithinValidTags" /\ Len(pre.ranges) >= 1 =>
        LET allValid == ThreeTagsBefore \subseteq args.validTagNames
        IN  /\ allValid => HasId(doc, SelectedBefore.id)
                           /\ Contains(doc, SelectedBefore.id, HtmlId)
            /\ Contains(doc, SelectedBefore.id, HtmlId) => allValid
            /\ ~allValid => SplitAround(ElementOf(pre.doc, CommonAncestor(pre.ranges[1])))
            /\ ~allValid => ~DirectlyContains(doc, SelectedBefore.id, HtmlId)

\* a backwards selection inside a valid paragraph that ends inside an element
\* that is not valid has been split
ReplaceSplitWitness ==
    /\ op = "selectionReplaceWithinValidTags"
    /\ Len(pre.ranges) = 1
    /\ backwards
    /\ SelectedBefore.tag = "p" /\ "p" \in args.validTagNames
    /\ "b" \notin args.validTagNames
    /\ NodeAt(pre.doc, ElementOf(pre.doc, DocumentOrderEnd.path)).tag = "b"
    /\ ~HasId(doc, SelectedBefore.id)
    /\ HasId(doc, HtmlId)

(***************************************************************************)
(* selectionConstrain (selection.js:504-524), with selectionSelectStart    *)
(* and selectionSelectEdge (selection.js:123-153)                          *)
(***************************************************************************)
\* selection.removeAllRanges(), then one collapsed range per element
selectionSelectEdge(d, element, start) ==
    LET b == Bnd(element, IF start THEN 0 ELSE NodeLength(NodeAt(d, element)))
    IN  <<Rng(b, b)>>

selectionSelectStart(d, element) == selectionSelectEdge(d, element, TRUE)

\* rangy.getSelection() always returns a selection object
SelectionObject == TRUE

\* element !== commonAncestor && !$.contains(element, commonAncestor)
OutsideElement(d, element, r) ==
    LET commonAncestor == ElementOf(d, CommonAncestor(r))
    IN  element # commonAncestor /\ ~(IsPrefix(element, commonAncestor) /\ element # commonAncestor)

RECURSIVE RemoveOutside(_, _, _)
RemoveOutside(d, element, rs) ==
    IF rs = <<>> THEN <<>>
    ELSE IF OutsideElement(d, element, Head(rs)) THEN RemoveOutside(d, element, Tail(rs))
    ELSE <<Head(rs)>> \o RemoveOutside(d, element, Tail(rs))

selectionConstrain(d, rs, element) ==
    IF ~SelectionObject THEN selectionSelectStart(d, element)
    ELSE RemoveOutside(d, element, rs)

\* the editable, its first child when that is an element, the paragraph outside
ConstrainElements(d) ==
    {EditablePath, <<2>>} \cup {p \in {EditablePath \o <<1>>} : ~IsText(NodeAt(d, p))}

DoSelectionConstrain(element) ==
    /\ op = "none"
    /\ ranges' = selectionConstrain(doc, ranges, element)
    /\ op' = "selectionConstrain"
    /\ args' = [element |-> element]
    /\ pre' = [doc |-> doc, ranges |-> ranges]
    /\ UNCHANGED <<doc, backwards, saveVars, ret, log, errors, loopVars>>

(***************************************************************************)
(* selectionAtEndOfElement and selectionAtStartOfElement                   *)
(* (selection.js:217-244)                                                  *)
(***************************************************************************)
HasSibling(d, p, step) ==
    /\ p # <<>>
    /\ Last(p) + step \in 1..Len(NodeAt(d, Front(p)).kids)

Sibling(d, p, step) == NodeAt(d, Front(p)).kids[Last(p) + step]

\* $(node).html() === '': an element without markup inside (for a text node
\* html() is not a string)
HtmlIsEmpty(n) == ~IsText(n) /\ EmptyHtml(n.kids)

\* !previous || $(previous).html() === ''
NoContentBeside(d, p, step) ==
    ~HasSibling(d, p, step) \/ HtmlIsEmpty(Sibling(d, p, step))

selectionAtEndOfElement(d, rs, bw) ==
    LET focusNode == IF bw THEN Anchor(rs, bw).path ELSE Focus(rs, bw).path
        focusOffset == IF bw THEN Focus(rs, bw).off ELSE Anchor(rs, bw).off
    IN  IF focusOffset # Len(Flatten(NodeAt(d, focusNode))) THEN FALSE
        ELSE NoContentBeside(d, focusNode, 1)

\* selection.isBackwards() ? selection.focusOffset : selection.anchorOffset !== 0
\* reads as isBackwards() ? focusOffset : (anchorOffset !== 0)
selectionAtStartOfElement(d, rs, bw) ==
    LET anchorNode == IF bw THEN Focus(rs, bw).path ELSE Anchor(rs, bw).path
        test == IF bw THEN Focus(rs, bw).off # 0 ELSE Anchor(rs, bw).off # 0
    IN  IF test THEN FALSE
        ELSE NoContentBeside(d, anchorNode, -1)

DoSelectionAtEndOfElement ==
    /\ op = "none"
    /\ Len(ranges) >= 1
    /\ ret' = <<selectionAtEndOfElement(doc, ranges, backwards)>>
    /\ op' = "selectionAtEndOfElement"
    /\ args' = [overwrite |-> FALSE]
    /\ pre' = [doc |-> doc, ranges |-> ranges]
    /\ UNCHANGED <<docVars, saveVars, log, errors, loopVars>>

DoSelectionAtStartOfElement ==
    /\ op = "none"
    /\ Len(ranges) >= 1
    /\ ret' = <<selectionAtStartOfElement(doc, ranges, backwards)>>
    /\ op' = "selectionAtStartOfElement"
    /\ args' = [overwrite |-> FALSE]
    /\ pre' = [doc |-> doc, ranges |-> ranges]
    /\ UNCHANGED <<docVars, saveVars, log, errors, loopVars>>

NextQuery ==
    \/ \E element \in ConstrainElements(doc) : DoSelectionConstrain(element)
    \/ DoSelectionAtEndOfElement
    \/ DoSelectionAtStartOfElement

SpecQuery == InitDocument /\ [][NextQuery]_vars

\* C6: after selectionConstrain(element) every range left has its common
\* ancestor in element (or is element), and when no range is left the selection
\* is one collapsed range at the start of element's contents.
ConstrainFallsBackToStart ==
    op = "selectionConstrain" =>
        LET inside(r) ==
                IsPrefix(args.element, ElementOf(doc, CommonAncestor(r)))
            kept == {k \in 1..Len(pre.ranges) : inside(pre.ranges[k])}
            caret == Bnd(args.element, 0)
        IN  /\ \A k \in 1..Len(ranges) : inside(ranges[k])
            /\ kept = {} => ranges = <<Rng(caret, caret)>>

\* C7: selectionAtStartOfElement tests the node and the offset of the boundary
\* that comes first in the document (offset 0) and selectionAtEndOfElement the
\* node and the offset of the boundary that comes last (offset = the text
\* length of that node), whichever way the selection was made.
EdgeTestsUseDocumentOrder ==
    /\ op = "selectionAtStartOfElement" =>
          ret[1] = (/\ DocumentOrderStart.off = 0
                    /\ NoContentBeside(doc, DocumentOrderStart.path, -1))
    /\ op = "selectionAtEndOfElement" =>
          ret[1] = (/\ DocumentOrderEnd.off
                          = Len(Flatten(NodeAt(doc, DocumentOrderEnd.path)))
                    /\ NoContentBeside(doc, DocumentOrderEnd.path, 1))

\* the same, of selectionAtStartOfElement alone
StartTestUsesDocumentOrder ==
    op = "selectionAtStartOfElement" =>
        ret[1] = (/\ DocumentOrderStart.off = 0
                  /\ NoContentBeside(doc, DocumentOrderStart.path, -1))

(***************************************************************************)
(* selectionEachBlock (selection.js:403-437)                               *)
(***************************************************************************)
\* no element: what elementClosestBlock returns at the limit
NoBlock == <<0>>

WrapperId == 80

\* elementClosestBlock(element, limitElement): from the container up to the
\* first element that is not inline; none when the limit is reached first
RECURSIVE elementClosestBlock(_, _, _)
elementClosestBlock(d, p, limit) ==
    IF p = limit THEN NoBlock
    ELSE IF IsText(NodeAt(d, p)) \/ IsInline(NodeAt(d, p))
    THEN elementClosestBlock(d, Front(p), limit)
    ELSE p

\* elementWrapInner(element, tag): the whole content of the element moves into
\* one new element of that tag, which becomes its only child
elementWrapInner(d, limit, tag, id) ==
    LET l == NodeAt(d, limit)
    IN  SetAt(d, limit, [l EXCEPT !.kids = <<Elem(id, tag, {}, l.kids)>>])

\* the boundaries keep their place in the content that moved into the wrapper
AfterWrapInner(b, limit) ==
    IF IsPrefix(limit, b.path)
    THEN Bnd(limit \o <<1>> \o SubSeq(b.path, Len(limit) + 1, Len(b.path)), b.off)
    ELSE b

\* document order of nodes
RECURSIVE PathBefore(_, _)
PathBefore(p, q) ==
    IF p = <<>> THEN q # <<>>
    ELSE IF q = <<>> THEN FALSE
    ELSE IF Head(p) = Head(q) THEN PathBefore(Tail(p), Tail(q))
    ELSE Head(p) < Head(q)

\* a jQuery set: its elements once each, in document order
RECURSIVE InDocumentOrder(_)
InDocumentOrder(S) ==
    IF S = {} THEN <<>>
    ELSE LET first == CHOOSE p \in S : \A q \in S \ {p} : PathBefore(p, q)
         IN  <<first>> \o InDocumentOrder(S \ {first})

\* startBlock.nextUntil(endBlock): the element siblings after startBlock, up
\* to endBlock when it is one of them
NextUntil(d, startBlock, endBlock) ==
    LET pp == Front(startBlock)
        n == Len(NodeAt(d, pp).kids)
        stop == IF Front(endBlock) = pp /\ Last(endBlock) > Last(startBlock)
                THEN Last(endBlock) ELSE n + 1
    IN  {pp \o <<k>> : k \in {j \in (Last(startBlock) + 1)..(stop - 1) :
                                  ~IsText(NodeAt(d, pp \o <<j>>))}}

\* !startBlock || !endBlock
WrapNeeded(startBlock, endBlock) == startBlock = NoBlock \/ endBlock = NoBlock

\* the same without .add(endBlock)
BlocksBetweenNoEnd(d, startBlock, endBlock) ==
    IF startBlock = endBlock THEN <<startBlock>>
    ELSE InDocumentOrder(NextUntil(d, startBlock, endBlock) \cup {startBlock})

\* the blocks the callback is called with for two blocks found
BlocksBetween(d, startBlock, endBlock) ==
    IF startBlock = endBlock THEN <<startBlock>>
    ELSE InDocumentOrder(NextUntil(d, startBlock, endBlock) \cup {startBlock, endBlock})

CallOn(d, p) == [id |-> NodeAt(d, p).id, cls |-> NodeAt(d, p).cls]

\* the function passed to selectionEachRange, for the range r
EachBlockCallback(st, r, k, limit, blockContainer) ==
    LET startBlock == elementClosestBlock(st.doc, r.s.path, limit)
        endBlock == elementClosestBlock(st.doc, r.e.path, limit)
        entry == [doc |-> st.doc, range |-> r]
    IN  IF WrapNeeded(startBlock, endBlock)
        THEN LET id == WrapperId + st.wrappers
                 wrapped == elementWrapInner(st.doc, limit, blockContainer, id)
             IN  [doc |-> wrapped,
                  ranges |-> [j \in 1..Len(st.ranges) |->
                                 Rng(AfterWrapInner(st.ranges[j].s, limit),
                                     AfterWrapInner(st.ranges[j].e, limit))],
                  wrappers |-> st.wrappers + 1,
                  calls |-> Append(st.calls, CallOn(wrapped, limit \o <<1>>)),
                  entries |-> Append(st.entries,
                                 [doc |-> st.doc, range |-> r, wrapped |-> TRUE,
                                  called |-> <<id>>])]
        ELSE LET blocks == BlocksBetween(st.doc, startBlock, endBlock)
             IN  [st EXCEPT
                    !.calls = @ \o [j \in 1..Len(blocks) |-> CallOn(st.doc, blocks[j])],
                    !.entries = Append(@,
                                 [doc |-> st.doc, range |-> r, wrapped |-> FALSE,
                                  called |-> [j \in 1..Len(blocks) |->
                                                 NodeAt(st.doc, blocks[j]).id]])]

RECURSIVE EachBlockEachRange(_, _, _, _)
EachBlockEachRange(st, k, limit, blockContainer) ==
    IF k + 1 > Len(st.ranges) THEN st
    ELSE EachBlockEachRange(
             EachBlockCallback(st, st.ranges[k + 1], k + 1, limit, blockContainer),
             k + 1, limit, blockContainer)

selectionEachBlock(d, rs, limitElement, blockContainer) ==
    EachBlockEachRange([doc |-> d, ranges |-> rs, wrappers |-> 0,
                        calls |-> <<>>, entries |-> <<>>],
                       0, limitElement, blockContainer)

(***************************************************************************)
(* Argument values.  A value of the calling code has a type and, where the *)
(* functions read it, a content: the path of the element a jQuery object   *)
(* or a DOM element stands for, the characters of a string, the classes of *)
(* an array.                                                               *)
(***************************************************************************)
Function == [type |-> "function", value |-> "callback"]
Undefined == [type |-> "undefined", value |-> "undefined"]
Number == [type |-> "number", value |-> "5"]
String(chars) == [type |-> "string", value |-> chars]
Array(elements) == [type |-> "array", value |-> elements]
JQuery(p) == [type |-> "jQuery", value |-> p]
DomElement(p) == [type |-> "Element", value |-> p]

\* $.isFunction(v), $.isArray(v), v instanceof jQuery, typeof v
IsFunction(v) == v.type = "function"
IsArray(v) == v.type = "array"
InstanceOfJQuery(v) == v.type = "jQuery"
TypeOf(v) == IF v.type \in {"array", "jQuery", "Element"} THEN "object" ELSE v.type

\* typeof blockContainer !== 'undefined' && typeof blockContainer !== 'string',
\* and the check left out
BlockContainerUnchecked(blockContainer) == FALSE

BadBlockContainer(blockContainer) ==
    TypeOf(blockContainer) # "undefined" /\ TypeOf(blockContainer) # "string"

\* the strict checks of selectionEachBlock: the message handed to handleError
\* by the first that fails, none when all pass
EachBlockStrict(callback, limitElement, blockContainer) ==
    IF ~IsFunction(callback)
    THEN <<"Paramter 1 to selectionEachBlock is expected to be a function">>
    ELSE IF ~InstanceOfJQuery(limitElement)
    THEN <<"Paramter 2 to selectionEachBlock is expected a jQuery element">>
    ELSE IF BadBlockContainer(blockContainer)
    THEN <<"Paramter 3 to selectionEachBlock is expected be undefined or a string">>
    ELSE <<>>

\* handleError(message): the message is reported and the caller goes on
handleError(reported, message) == reported \o message

DoSelectionEachBlock(callback, limitElement, blockContainer) ==
    /\ op = "none"
    /\ LET strict == EachBlockStrict(callback, limitElement, blockContainer)
       IN  IF strict # <<>>
           THEN /\ errors' = handleError(errors, strict)
                /\ UNCHANGED <<doc, ranges, log>>
           ELSE LET st == selectionEachBlock(doc, ranges, limitElement.value,
                                             blockContainer.value)
                IN  /\ doc' = st.doc
                    /\ ranges' = st.ranges
                    /\ log' = st.entries
                    /\ UNCHANGED errors
    /\ op' = "selectionEachBlock"
    /\ args' = [callback |-> callback, limitElement |-> limitElement,
                blockContainer |-> blockContainer]
    /\ pre' = [doc |-> doc, ranges |-> ranges]
    /\ UNCHANGED <<backwards, saveVars, ret, loopVars>>

(***************************************************************************)
(* selectionToggleBlockClasses (selection.js:454-494)                      *)
(***************************************************************************)
\* whether the block lacks one of the classes, whatever was found before
ToggleCallbackLastBlock(apply, blockCls, addClasses) ==
    \E c \in addClasses : c \notin blockCls

\* if (!apply) for each of addClasses: if (!$(block).hasClass(c)) apply = true
ToggleCallback(apply, blockCls, addClasses) ==
    IF ~apply THEN \E c \in addClasses : c \notin blockCls ELSE apply

RECURSIVE ToggleApply(_, _, _)
ToggleApply(apply, calls, addClasses) ==
    IF calls = <<>> THEN apply
    ELSE ToggleApply(ToggleCallback(apply, Head(calls).cls, addClasses),
                     Tail(calls), addClasses)

\* $(blocks).removeClass(..) and addClass(..): on the nodes with these ids
RECURSIVE SetClasses(_, _, _, _)
SetClasses(n, ids, add, remove) ==
    [n EXCEPT !.cls = IF n.id \in ids THEN (@ \ remove) \cup add ELSE @,
              !.kids = [k \in 1..Len(n.kids) |-> SetClasses(n.kids[k], ids, add, remove)]]

selectionToggleBlockClasses(d, rs, addClasses, removeClasses, limitElement, blockContainer) ==
    LET st == selectionEachBlock(d, rs, limitElement, blockContainer)
        blocks == {st.calls[k].id : k \in 1..Len(st.calls)}
        apply == ToggleApply(FALSE, st.calls, addClasses)
        removed == SetClasses(st.doc, blocks, {}, removeClasses)
    IN  [doc |-> IF apply THEN SetClasses(removed, blocks, addClasses, {})
                 ELSE SetClasses(removed, blocks, {}, addClasses),
         ranges |-> st.ranges,
         calls |-> st.calls]

\* the strict checks of selectionToggleBlockClasses
ToggleBlockClassesStrict(addClasses, removeClasses, limitElement, blockContainer) ==
    IF ~IsArray(addClasses)
    THEN <<"Paramter 1 to selectionToggleBlockClasses is expected to be an array of classes">>
    ELSE IF ~IsArray(removeClasses)
    THEN <<"Paramter 2 to selectionToggleBlockClasses is expected to be an array of classes">>
    ELSE IF ~InstanceOfJQuery(limitElement)
    THEN <<"Paramter 3 to selectionToggleBlockClasses is expected a jQuery element">>
    ELSE IF BadBlockContainer(blockContainer)
    THEN <<"Paramter 4 to selectionToggleBlockClasses is expected be undefined or a string">>
    ELSE <<>>

DoSelectionToggleBlockClasses(addClasses, removeClasses, limitElement, blockContainer) ==
    /\ op = "none"
    /\ LET strict == ToggleBlockClassesStrict(addClasses, removeClasses, limitElement,
                                              blockContainer)
       IN  IF strict # <<>>
           THEN /\ errors' = handleError(errors, strict)
                /\ UNCHANGED <<doc, ranges, log>>
           ELSE LET st == selectionToggleBlockClasses(doc, ranges, addClasses.value,
                                                      removeClasses.value,
                                                      limitElement.value,
                                                      blockContainer.value)
                IN  /\ doc' = st.doc
                    /\ ranges' = st.ranges
                    /\ log' = st.calls
                    /\ UNCHANGED errors
    /\ op' = "selectionToggleBlockClasses"
    /\ args' = [addClasses |-> addClasses, removeClasses |-> removeClasses,
                limitElement |-> limitElement, blockContainer |-> blockContainer]
    /\ pre' = [doc |-> doc, ranges |-> ranges]
    /\ UNCHANGED <<backwards, saveVars, ret, loopVars>>

\* the documents with classes on the child elements of the editable
ClassSets == {{}, {"c1"}}

WithClasses(d, f) ==
    LET e == NodeAt(d, EditablePath)
    IN  SetAt(d, EditablePath,
              [e EXCEPT !.kids = [k \in 1..Len(e.kids) |->
                                     IF IsText(e.kids[k]) THEN e.kids[k]
                                     ELSE [e.kids[k] EXCEPT !.cls = f[k]]]])

ClassedDocs ==
    UNION {{WithClasses(d, f) : f \in [1..Len(NodeAt(d, EditablePath).kids) -> ClassSets]} :
              d \in Docs}

InitBlocks ==
    /\ doc \in ClassedDocs
    /\ ranges \in Selections(doc)
    /\ backwards = FALSE
    /\ savedSelection = False /\ markers = {} /\ nextMarker = 1
    /\ CallIdle
    /\ pre = [doc |-> doc, ranges |-> ranges]
    /\ LoopIdle

NextBlocks ==
    \/ \E limitElement \in {JQuery(EditablePath), JQuery(<<>>)},
          blockContainer \in {String("div"), String("span")} :
          DoSelectionEachBlock(Function, limitElement, blockContainer)
    \/ \E addClasses \in {Array({}), Array({"c1"}), Array({"c1", "c2"})},
          removeClasses \in {Array({}), Array({"c1"})} :
          DoSelectionToggleBlockClasses(addClasses, removeClasses, JQuery(EditablePath),
                                        String("div"))

SpecBlocks == InitBlocks /\ [][NextBlocks]_vars

ClassesOf(n, id) == NodeAt(n, PathOf(n, id)).cls

\* C3: the decision is taken once over all collected blocks: when one of them
\* lacked one class of addClasses, every collected block has every class of
\* addClasses after the call; when every one had them all, no collected block
\* has any of them after the call.
ToggleDecidesOverAllBlocks ==
    op = "selectionToggleBlockClasses" =>
        LET collected == {log[k].id : k \in 1..Len(log)}
            lacked == \E k \in 1..Len(log) : ~(args.addClasses.value \subseteq log[k].cls)
        IN  /\ \A id \in collected : HasId(doc, id)
            /\ lacked => \A id \in collected : args.addClasses.value \subseteq ClassesOf(doc, id)
            /\ ~lacked => \A id \in collected : args.addClasses.value \cap ClassesOf(doc, id) = {}

\* two blocks were collected, the first had the class and the second had not,
\* and both have it now
ToggleWitness ==
    /\ op = "selectionToggleBlockClasses"
    /\ args.addClasses.value = {"c1"}
    /\ Len(log) = 2
    /\ "c1" \in log[1].cls /\ "c1" \notin log[2].cls
    /\ \A k \in 1..2 : "c1" \in ClassesOf(doc, log[k].id)

\* the walk from the container p up to the limit meets an element that is not
\* inline before it meets the limit; BlockFound is that element
BlocksOnWalk(d, p, limit) ==
    {q \in {SubSeq(p, 1, m) : m \in 0..Len(p)} :
        /\ ~IsText(NodeAt(d, q)) /\ ~IsInline(NodeAt(d, q))
        /\ ~(IsPrefix(q, limit) /\ IsPrefix(limit, p))}

FindsBlock(d, p, limit) == BlocksOnWalk(d, p, limit) # {}

BlockFound(d, p, limit) ==
    CHOOSE q \in BlocksOnWalk(d, p, limit) :
        \A x \in BlocksOnWalk(d, p, limit) : Len(x) <= Len(q)

\* the document after the k-th range was handled
DocAfterEntry(k) == IF k < Len(log) THEN log[k + 1].doc ELSE doc

\* the callback was called once, on a new element that holds all the limit held
WrappedOnce(k) ==
    LET before == NodeAt(log[k].doc, args.limitElement.value)
        after == NodeAt(DocAfterEntry(k), args.limitElement.value)
    IN  /\ Len(log[k].called) = 1
        /\ ~HasId(log[k].doc, log[k].called[1])
        /\ Len(after.kids) = 1
        /\ after.kids[1].id = log[k].called[1]
        /\ after.kids[1].tag = args.blockContainer.value
        /\ after.kids[1].kids = before.kids

\* the ids called are those of nodes of d, each once, in document order
CalledInOrder(d, called) ==
    /\ \A j \in 1..Len(called) : HasId(d, called[j])
    /\ \A j \in 1..(Len(called) - 1) :
          PathBefore(PathOf(d, called[j]), PathOf(d, called[j + 1]))

IsLaterSibling(sb, eb) == Front(eb) = Front(sb) /\ Last(eb) > Last(sb)

\* the element siblings after the start block, up to the end block when it is
\* one of them
FollowingSiblings(d, sb, eb) ==
    {q \in Paths(d) :
        /\ Len(q) = Len(sb) /\ Front(q) = Front(sb) /\ Last(q) > Last(sb)
        /\ ~IsText(NodeAt(d, q))
        /\ IsLaterSibling(sb, eb) => Last(q) < Last(eb)}

NextStrict ==
    \/ \E callback \in {Function, Undefined, String("f")},
          limitElement \in {JQuery(EditablePath), DomElement(EditablePath), Undefined},
          blockContainer \in {String("div"), Undefined, Number} :
          DoSelectionEachBlock(callback, limitElement, blockContainer)
    \/ \E addClasses \in {Array({"c1"}), String("c1")},
          removeClasses \in {Array({}), Undefined},
          limitElement \in {JQuery(EditablePath), DomElement(EditablePath)},
          blockContainer \in {String("div"), Undefined, Number} :
          DoSelectionToggleBlockClasses(addClasses, removeClasses, limitElement,
                                        blockContainer)

\* no selection, one range, or two ranges in two blocks
InitStrict ==
    /\ doc \in ClassedDocs
    /\ ranges \in {<<>>} \cup {<<r>> : r \in TextRangesIn(doc, 1)} \cup TwoRangeSelections(doc)
    /\ backwards = FALSE
    /\ savedSelection = False /\ markers = {} /\ nextMarker = 1
    /\ CallIdle
    /\ pre = [doc |-> doc, ranges |-> ranges]
    /\ LoopIdle

SpecStrict == InitStrict /\ [][NextStrict]_vars

\* blockContainer neither undefined nor a string
MalformedBlockContainer == args.blockContainer.type \notin {"undefined", "string"}

\* the call made had a malformed argument
MalformedCall ==
    \/ /\ op = "selectionEachBlock"
       /\ \/ args.callback.type # "function"
          \/ args.limitElement.type # "jQuery"
          \/ MalformedBlockContainer
    \/ /\ op = "selectionToggleBlockClasses"
       /\ \/ args.addClasses.type # "array"
          \/ args.removeClasses.type # "array"
          \/ args.limitElement.type # "jQuery"
          \/ MalformedBlockContainer

\* C11: a call of selectionEachBlock or selectionToggleBlockClasses with a
\* malformed argument reports through handleError, and returns with no
\* callback invoked, no range iterated, and no class and no node of the tree
\* changed.
StrictRejectsMalformed ==
    MalformedCall =>
        /\ Len(errors) = 1
        /\ log = <<>>
        /\ doc = pre.doc
        /\ ranges = pre.ranges

\* classes would have been toggled on the blocks of two ranges, had the
\* number given as blockContainer been a string
StrictRejectsWitness ==
    /\ op = "selectionToggleBlockClasses"
    /\ args.addClasses = Array({"c1"})
    /\ args.removeClasses.type = "array"
    /\ args.limitElement.type = "jQuery"
    /\ args.blockContainer = Number
    /\ Len(pre.ranges) = 2
    /\ errors = <<"Paramter 4 to selectionToggleBlockClasses is expected be undefined or a string">>

(***************************************************************************)
(* selectionFindWrappingAndInnerElements and selectionChangeTags           *)
(* (selection.js:615-663).  A selector is the set of tag names joined by   *)
(* changeFrom.join(','); a jQuery set that is pushed to is the sequence of *)
(* its elements, duplicates included.  The markers of the saved selection  *)
(* are span elements with their own ids; no span is searched for here, so  *)
(* they add no element to a search and are kept out of the tree.           *)
(***************************************************************************)
Matches(d, p, selector) == ~IsText(NodeAt(d, p)) /\ NodeAt(d, p).tag \in selector

\* $(startNode).filter(selector)
FilterSelf(d, n, selector) == IF Matches(d, n, selector) THEN <<n>> ELSE <<>>

\* $(startNode).parentsUntil(limitElement, selector): the ancestors, closest
\* first, below the limit when it is one of them
RECURSIVE ParentsUntil(_, _, _, _)
ParentsUntil(d, n, limit, selector) ==
    IF n = <<>> \/ Front(n) = limit THEN <<>>
    ELSE FilterSelf(d, Front(n), selector) \o ParentsUntil(d, Front(n), limit, selector)

\* $(startNode).find(selector): the descendants, in document order
FindIn(d, n, selector) ==
    InDocumentOrder({q \in Paths(d) : IsPrefix(n, q) /\ q # n /\ Matches(d, q, selector)})

\* filter: if (!limitElement.is(this)) result.push(this)
FilterKeepLimit(found, limit) == found

FilterLimit(found, limit) == SelectSeq(found, LAMBDA q : q # limit)

\* $(startNode).next(): the element sibling that follows, if any
NextElement(d, n) ==
    IF n = <<>> THEN <<>>
    ELSE LET after == {k \in (Last(n) + 1)..Len(NodeAt(d, Front(n)).kids) :
                          ~IsText(NodeAt(d, Front(n) \o <<k>>))}
         IN  IF after = {} THEN <<>>
             ELSE <<Front(n) \o <<CHOOSE k \in after : \A j \in after : k <= j>>>>

\* $(startNode).prevAll().has(endNode).length > 0: an element sibling before
\* startNode has endNode among its descendants
PrevAllHas(d, n, endNode) ==
    \E k \in 1..(Last(n) - 1) :
        LET q == Front(n) \o <<k>>
        IN  ~IsText(NodeAt(d, q)) /\ IsPrefix(q, endNode) /\ q # endNode

\* the do ... while loop over startNode and the element siblings after it
RECURSIVE FindFrom(_, _, _, _, _)
FindFrom(d, startNode, endNode, selector, limit) ==
    LET here == FilterLimit(FilterSelf(d, startNode, selector)
                            \o (IF startNode # limit
                                THEN ParentsUntil(d, startNode, limit, selector)
                                ELSE <<>>)
                            \o FindIn(d, startNode, selector), limit)
        next == NextElement(d, startNode)
    IN  IF endNode = startNode THEN here
        ELSE IF Len(next) > 0 /\ ~PrevAllHas(d, next[1], endNode)
        THEN here \o FindFrom(d, next[1], endNode, selector, limit)
        ELSE here

RECURSIVE selectionFindWrappingAndInnerElements(_, _, _, _)
selectionFindWrappingAndInnerElements(d, rs, selector, limitElement) ==
    IF rs = <<>> THEN <<>>
    ELSE FindFrom(d, ElementOf(d, rs[1].s.path), ElementOf(d, rs[1].e.path),
                  selector, limitElement)
         \o selectionFindWrappingAndInnerElements(d, Tail(rs), selector, limitElement)

Range(f) == {f[k] : k \in DOMAIN f}

\* elementChangeTag(elements, changeTo): each of the elements gets the new
\* tag name and keeps its attributes and children
RECURSIVE ChangeTagIn(_, _, _, _)
ChangeTagIn(n, p, elements, changeTo) ==
    IF IsText(n) THEN n
    ELSE [n EXCEPT !.tag = IF p \in elements THEN changeTo ELSE @,
                   !.kids = [k \in 1..Len(n.kids) |->
                                ChangeTagIn(n.kids[k], p \o <<k>>, elements, changeTo)]]

elementChangeTag(d, elements, changeTo) == ChangeTagIn(d, <<>>, Range(elements), changeTo)

\* limitNode.innerHTML = '<' + changeTo + '>' + limitNode.innerHTML + '</' +
\* changeTo + '>': the content is written as markup around which the new
\* tag is put, and parsed again
WrapInnerHtml(d, limit, changeTo) ==
    LET l == NodeAt(d, limit)
    IN  SetAt(d, limit, [l EXCEPT !.kids = ParseHtml(<<Elem(0, changeTo, {}, l.kids)>>)])

selectionChangeTags(d, rs, s, changeTo, changeFrom, limitElement) ==
    LET saved == selectionSave(s, rs, FALSE)
        elements == selectionFindWrappingAndInnerElements(d, rs, changeFrom, limitElement)
        changed == Len(elements) > 0
    IN  [doc |-> IF changed THEN elementChangeTag(d, elements, changeTo)
                 ELSE WrapInnerHtml(d, limitElement, changeTo),
         ranges |-> IF changed THEN rs
                    ELSE [k \in 1..Len(rs) |-> Rng(AfterWrapInner(rs[k].s, limitElement),
                                                   AfterWrapInner(rs[k].e, limitElement))],
         save |-> selectionRestore(saved),
         elements |-> elements,
         saved |-> saved.savedSelection]

DoSelectionChangeTags(changeTo, changeFrom, limitElement) ==
    /\ op = "none"
    /\ LET done == selectionChangeTags(doc, ranges, SaveState, changeTo, changeFrom,
                                       limitElement)
       IN  /\ doc' = done.doc
           /\ ranges' = done.ranges
           /\ SetSaveState(done.save)
           /\ log' = [elements |-> done.elements, saved |-> done.saved]
    /\ op' = "selectionChangeTags"
    /\ args' = [changeTo |-> changeTo, changeFrom |-> changeFrom,
                limitElement |-> limitElement]
    /\ pre' = [doc |-> doc, ranges |-> ranges]
    /\ UNCHANGED <<backwards, ret, errors, loopVars>>

\* the editable element and its element children
LimitElements(d) ==
    {EditablePath} \cup {EditablePath \o <<k>> : k \in
        {k \in 1..Len(NodeAt(d, EditablePath).kids) :
            ~IsText(NodeAt(d, EditablePath \o <<k>>))}}

ChangeFromTags == {{"b"}, {"p"}, {"h1", "div"}, {"b", "i", "p"}}

\* nothing is saved, or the caller has saved the selection it made
InitTags ==
    /\ doc \in Docs
    /\ ranges \in Selections(doc)
    /\ backwards = FALSE
    /\ \E callerSaved \in BOOLEAN :
          LET s == [savedSelection |-> False, markers |-> {}, nextMarker |-> 1]
              t == IF callerSaved THEN selectionSave(s, ranges, FALSE) ELSE s
          IN  /\ savedSelection = t.savedSelection
              /\ markers = t.markers
              /\ nextMarker = t.nextMarker
    /\ CallIdle
    /\ pre = [doc |-> doc, ranges |-> ranges]
    /\ LoopIdle

NextTags ==
    \E changeTo \in {"h1", "i"}, changeFrom \in ChangeFromTags,
       limitElement \in LimitElements(doc) :
        DoSelectionChangeTags(changeTo, changeFrom, limitElement)

SpecTags == InitTags /\ [][NextTags]_vars

\* the elements that wrap the start of range r below the limit, the element
\* the start is in, and the elements inside it, that match the selector
WrappingAndInner(d, r, selector, limit) ==
    LET startNode == ElementOf(d, r.s.path)
    IN  {q \in Paths(d) :
            /\ Matches(d, q, selector) /\ q # limit
            /\ \/ IsPrefix(startNode, q)
               \/ /\ IsPrefix(q, startNode) /\ startNode # limit
                  /\ IsPrefix(limit, startNode) => Len(q) > Len(limit)}

SameButTag(n, m) == [n EXCEPT !.tag = "", !.kids = <<>>] = [m EXCEPT !.tag = "", !.kids = <<>>]

\* C8: when the search finds elements, each of them, and nothing else, is
\* renamed to changeTo and no node is added; when it finds none, the limit
\* element gets one new changeTo child that holds all its former content; the
\* search finds only elements that match changeFrom, among them those that
\* wrap or lie inside the element at the start of a range; the limit element
\* keeps its own tag, and a saved selection exists during the edit and none,
\* nor any marker, after it.
ChangeTagsRenamesOrWraps ==
    op = "selectionChangeTags" =>
        LET found == Range(log.elements)
            limit == args.limitElement
            before == NodeAt(pre.doc, limit)
            after == NodeAt(doc, limit)
        IN  /\ \A q \in found : Matches(pre.doc, q, args.changeFrom) /\ q # limit
            /\ \A k \in 1..Len(pre.ranges) :
                  WrappingAndInner(pre.doc, pre.ranges[k], args.changeFrom, limit) \subseteq found
            /\ found # {} =>
                  /\ Paths(doc) = Paths(pre.doc)
                  /\ \A q \in Paths(doc) :
                        /\ IsText(NodeAt(doc, q)) => NodeAt(doc, q) = NodeAt(pre.doc, q)
                        /\ ~IsText(NodeAt(doc, q)) =>
                              /\ SameButTag(NodeAt(doc, q), NodeAt(pre.doc, q))
                              /\ NodeAt(doc, q).tag = IF q \in found THEN args.changeTo
                                                      ELSE NodeAt(pre.doc, q).tag
            /\ found = {} =>
                  /\ Len(after.kids) = 1
                  /\ after.kids[1].tag = args.changeTo
                  /\ after.kids[1].id \notin Ids(pre.doc)
                  /\ ZeroIds(after.kids[1]).kids
                        = [k \in 1..Len(before.kids) |-> ZeroIds(before.kids[k])]
                  /\ SetAt(doc, limit, before) = pre.doc
            /\ after.tag = before.tag /\ after.id = before.id
            /\ log.saved # False
            /\ savedSelection = False /\ markers = {}

\* the limit element matches changeFrom and is the element the selection
\* starts in, and an element inside it is renamed
ChangeTagsWitness ==
    /\ op = "selectionChangeTags"
    /\ Len(pre.ranges) = 1
    /\ ElementOf(pre.doc, pre.ranges[1].s.path) = args.limitElement
    /\ NodeAt(pre.doc, args.limitElement).tag \in args.changeFrom
    /\ log.elements # <<>>
    /\ doc # pre.doc

(***************************************************************************)
(* selectionClearFormatting (selection.js:527-572).  It works on a copy of *)
(* the first range of the selection; the selection is taken to follow that *)
(* copy.                                                                   *)
(***************************************************************************)
ClearedId == 70

\* rangeExpandToParent(range): the range comes to lie in the parent of its
\* container, around the container
rangeExpandToParent(r) ==
    Rng(Bnd(Front(r.s.path), Last(r.s.path) - 1), Bnd(Front(r.e.path), Last(r.e.path)))

\* range.collapseAfter(node)
collapseAfter(p) == Bnd(Front(p), Last(p))

\* the container of the range, then its ancestors, up to the node whose
\* parent is limitNode; none when the walk runs out of ancestors
HasContaining(p, limitNode) == IsPrefix(limitNode, p) /\ Len(p) > Len(limitNode)

ContainerItself(p, limitNode) == p

Containing(p, limitNode) == SubSeq(p, 1, Len(limitNode) + 1)

\* range.insertNode(document.createTextNode(content)): the range then holds
\* the new text node
InsertText(d, at, content, contentAfterRangeStart, parent) ==
    LET done == InsertNodes(d, at, <<TextNode(ClearedId, content)>>)
    IN  [doc |-> done.doc,
         ranges |-> <<Rng(done.at, Bnd(done.at.path, done.at.off + 1))>>,
         content |-> content, contentAfterRangeStart |-> contentAfterRangeStart,
         parent |-> parent]

\* the content from the range to the end of parent moves behind parent, and
\* the text goes in between the two
MoveAfterParent(d, at, content, parent) ==
    LET after == ExtractContents(d, Rng(at, collapseAfter(parent)))
    IN  InsertText(InsertNodes(after.doc, collapseAfter(parent), after.frag).doc,
                   collapseAfter(parent), content, after.frag, <<parent>>)

ClearAt(d, at, content, limitNode) ==
    IF HasContaining(at.path, limitNode)
    THEN MoveAfterParent(d, at, content, Containing(at.path, limitNode))
    ELSE InsertText(d, at, content, <<>>, <<>>)

\* the range collapsed where the content came out, put around its container
ExpandAndExtract(d, at) == ExtractContents(d, rangeExpandToParent(Rng(at, at)))

selectionClearFormatting(d, rs, limitNode) ==
    LET first == ExtractContents(d, rs[1])
        extracted == IF EmptyHtml(first.frag) THEN ExpandAndExtract(first.doc, first.at)
                     ELSE first
    IN  ClearAt(extracted.doc, extracted.at, FlattenSeq(extracted.frag), limitNode)

DoSelectionClearFormatting(limitNode) ==
    /\ op = "none"
    /\ IF Len(ranges) > 0
       THEN LET done == selectionClearFormatting(doc, ranges, limitNode)
            IN  /\ doc' = done.doc
                /\ ranges' = done.ranges
                /\ log' = [content |-> done.content,
                           contentAfterRangeStart |-> done.contentAfterRangeStart,
                           parent |-> done.parent]
       ELSE UNCHANGED <<doc, ranges, log>>
    /\ op' = "selectionClearFormatting"
    /\ args' = [limitNode |-> limitNode]
    /\ pre' = [doc |-> doc, ranges |-> ranges]
    /\ UNCHANGED <<backwards, saveVars, ret, errors, loopVars>>

\* no selection, or one range anywhere inside the editable element
InitClear ==
    /\ doc \in Docs
    /\ ranges \in {<<>>} \cup {<<r>> : r \in EditableRanges(doc)}
    /\ backwards \in {b \in BOOLEAN : b => Len(ranges) = 1 /\ ~Collapsed(ranges[1])}
    /\ savedSelection = False /\ markers = {} /\ nextMarker = 1
    /\ CallIdle
    /\ pre = [doc |-> doc, ranges |-> ranges]
    /\ LoopIdle

\* limitNode is the body when none is given
NextClear ==
    \E limitNode \in {<<>>} \cup LimitElements(doc) : DoSelectionClearFormatting(limitNode)

SpecClear == InitClear /\ [][NextClear]_vars

\* the child of n that is the text node put in by the call
ClearedAt(n) == {k \in 1..Len(n.kids) : n.kids[k].id = ClearedId}

\* p, a path of the document, as a path inside the node at limit
Below(p, limit) == SubSeq(p, Len(limit) + 1, Len(p))

\* a non-collapsed first range inside a block that is a child of limitNode
ClearsInsideBlock ==
    /\ op = "selectionClearFormatting"
    /\ Len(pre.ranges) > 0
    /\ ~Collapsed(pre.ranges[1])
    /\ HasContaining(CommonAncestor(pre.ranges[1]), args.limitNode)
    /\ LET block == NodeAt(pre.doc, Containing(CommonAncestor(pre.ranges[1]), args.limitNode))
       IN  ~IsText(block) /\ ~IsInline(block)

IsSeqPrefix(s, t) == Len(s) <= Len(t) /\ SubSeq(t, 1, Len(s)) = s

IsSeqSuffix(s, t) == Len(s) <= Len(t) /\ SubSeq(t, Len(t) - Len(s) + 1, Len(t)) = s

\* C9: after clearing a non-collapsed first range inside a child block of
\* limitNode, limitNode has one new child that is a bare text node; the
\* characters under limitNode in front of it, its own, and those behind it are
\* together the characters limitNode held, in the same order; those in front
\* were in front of the selection and those behind were behind it, and when
\* characters were selected the new node holds exactly them; nothing outside
\* limitNode changes.
ClearFormattingKeepsOrder ==
    ClearsInsideBlock =>
        LET limit == args.limitNode
            r == pre.ranges[1]
            was == NodeAt(pre.doc, limit)
            now == NodeAt(doc, limit)
            selected == FlattenSeq(CloneContents(pre.doc, r))
            textBefore == Flatten(KeepBefore(was, Below(r.s.path, limit), r.s.off, FALSE))
            textAfter == Flatten(KeepAfter(was, Below(r.e.path, limit), r.e.off, FALSE))
        IN  /\ Cardinality(ClearedAt(now)) = 1
            /\ LET k == CHOOSE k \in ClearedAt(now) : TRUE
                   before == FlattenSeq(SubSeq(now.kids, 1, k - 1))
                   behind == FlattenSeq(SubSeq(now.kids, k + 1, Len(now.kids)))
               IN  /\ IsText(now.kids[k])
                   /\ before \o now.kids[k].text \o behind = Flatten(was)
                   /\ IsSeqPrefix(before, textBefore)
                   /\ IsSeqSuffix(behind, textAfter)
                   /\ selected # <<>> => now.kids[k].text = selected
            /\ textBefore \o selected \o textAfter = Flatten(was)
            /\ SetAt(doc, limit, was) = pre.doc

\* markup is selected between characters of the block, and content that
\* followed the selection in the block is moved behind the new text node
ClearFormattingWitness ==
    /\ ClearsInsideBlock
    /\ \E k \in 1..Len(CloneContents(pre.doc, pre.ranges[1])) :
          ~IsText(CloneContents(pre.doc, pre.ranges[1])[k])
    /\ log.content # <<>>
    /\ FlattenSeq(log.contentAfterRangeStart) # <<>>
    /\ \E k \in ClearedAt(NodeAt(doc, args.limitNode)) :
          /\ k > 1
          /\ Flatten(NodeAt(doc, args.limitNode).kids[k - 1]) # <<>>

====
